---- MODULE Spec2Model ----
(***************************************************************************)
(* Command execution pipeline of xero-toolkit                               *)
(* (src/src/ui/command_execution): run_commands_with_progress, the          *)
(* sequence executor, the per-step RunningCommandContext and the handlers   *)
(* of the progress window, as callbacks of one GLib main loop.              *)
(*                                                                          *)
(* Every callback of the main loop is one action.  The code of a callback   *)
(* is written as operators on a "world" record                              *)
(*     [running |-> ACTION_RUNNING, run |-> the objects of one run]         *)
(* so that nested calls (try_finalize -> execute_commands_sequence ->       *)
(* finalize_execution) compose as in the source.                            *)
(***************************************************************************)
EXTENDS Naturals, Sequences, FiniteSets

(* ------------------------------ bounds --------------------------------- *)
\* number of run_commands_with_progress calls that get past the running flag
MaxRuns == 2
\* longest command list handed to run_commands_with_progress
MaxSteps == 2
\* the lines the processes of a run write to their streams, where lines are followed
MaxLines == 3
\* how many option ids the selection dialog hands to its callback
MaxSelected == 4

RunIds == 1..MaxRuns

(* ------------------------------ types ---------------------------------- *)
CommandType == {"Normal", "Privileged", "Aur"}

None == "None"

\* Option<gio::Subprocess>: None, or the process spawned for step k (1-based)
NoProcess == 0

CommandStep_new(command_type, command, args) ==
    [command_type |-> command_type, command |-> command, args |-> args]

CommandStep_normal(command, args) == CommandStep_new("Normal", command, args)

CommandStep_privileged(command, args) == CommandStep_new("Privileged", command, args)

CommandStep_aur(args) == CommandStep_new("Aur", "aur", args)

\* Option<i32> is a set with at most one element
CommandResult_Success == [tag |-> "Success", exit_code |-> {}]

CommandResult_Failure(exit_code) == [tag |-> "Failure", exit_code |-> exit_code]

\* the steps callers build lists from (spec.md section 8 and pages/drivers.rs)
StepPool ==
    { CommandStep_normal("echo", <<"hi">>),
      CommandStep_privileged("systemctl", <<"restart", "foo">>),
      CommandStep_aur(<<"-S", "pkg">>) }

RECURSIVE SeqsUpTo(_, _)
SeqsUpTo(S, n) ==
    IF n = 0 THEN { <<>> }
    ELSE LET shorter == SeqsUpTo(S, n - 1)
         IN  shorter \cup { Append(q, x) : q \in { p \in shorter : Len(p) = n - 1 }, x \in S }

\* the command lists a caller may pass, the empty one included
CommandLists == SeqsUpTo(StepPool, MaxSteps)

\* the same, of steps that need no helper and no privilege
NormalLists == SeqsUpTo({ CommandStep_normal("echo", <<"hi">>) }, MaxSteps)

\* what the environment answers while one callback runs: the configured AUR
\* helper, the helpers found in PATH, whether Subprocess::newv succeeds, and
\* the streams (named by is_error_stream) for which the new process has no pipe
AurHelpers == {"paru", "yay"}

Env(aur_helper, in_path, spawn_ok, no_pipe) ==
    [ aur_helper |-> aur_helper, in_path |-> in_path, spawn_ok |-> spawn_ok,
      no_pipe |-> no_pipe ]

\* one environment for each way a dispatch can go: a helper is configured,
\* a helper is only found in PATH, no helper anywhere, the spawn fails, the
\* process comes without its stdout pipe, its stderr pipe, or both
Envs ==
    { Env("paru", {}, TRUE, {}), Env(None, {"yay"}, TRUE, {}),
      Env(None, {}, TRUE, {}), Env(None, {"paru", "yay"}, FALSE, {}),
      Env("paru", {}, TRUE, {FALSE}), Env("paru", {}, TRUE, {TRUE}),
      Env("paru", {}, TRUE, {FALSE, TRUE}) }

\* on_complete as the caller passes it: TRUE is Some(callback)
CallbackOptions == {TRUE}

ExitCodes == {1}

VARIABLES
    ACTION_RUNNING,   \* static ACTION_RUNNING: AtomicBool
    runs,             \* the objects run_commands_with_progress creates, per run
    app_log,          \* the last line run_commands_with_progress sent to log::{error, warn}
    scope,            \* what a specification follows (it never changes): how many
                      \* runs, which command lists, whether processes may come
                      \* without a pipe, and which of the things the code
                      \* writes but never reads are kept in the state
    call              \* a direct call of execute_commands_sequence on given
                      \* arguments (SpecEntry); "none" where the main loop runs

vars == <<ACTION_RUNNING, runs, app_log, scope, call>>

(* ------------------------- progress surface ---------------------------- *)
\* progress_dialog.ui (a resource, not a source file): the dialog as built,
\* before any handler ran
ProgressDialogUi ==
    [ cancel_visible |-> TRUE, cancel_sensitive |-> TRUE,
      close_visible |-> FALSE, close_sensitive |-> FALSE ]

\* Option<CommandResult>::None
NoResult == [tag |-> "None", exit_code |-> {}]

\* no RunningCommandContext is alive (none created yet, or the last one was
\* finalized and dropped)
NoCtx == [ live |-> FALSE, index |-> 0, stdout_done |-> FALSE, stderr_done |-> FALSE,
           exit_result |-> NoResult, no_pipe |-> {},
      lines |-> [ e \in BOOLEAN |-> 0 ] ]

\* the objects one accepted run_commands_with_progress call creates
NewRun(commands, on_complete) ==
    [ started          |-> TRUE,
      commands         |-> commands,
      on_complete      |-> on_complete,       \* Option: TRUE is Some(callback)
      cancelled        |-> FALSE,
      current_process  |-> NoProcess,
      ctx              |-> NoCtx,
      window_open      |-> TRUE,
      cancel_visible   |-> ProgressDialogUi.cancel_visible,
      cancel_sensitive |-> ProgressDialogUi.cancel_sensitive,
      close_visible    |-> ProgressDialogUi.close_visible,
      close_sensitive  |-> ProgressDialogUi.close_sensitive,
      progress         |-> [current |-> 0, total |-> 0, text |-> "none"],
      status           |-> [i \in 1..Len(commands) |-> "Pending"],
      log              |-> <<>>,              \* output_buffer, line by line
      completions      |-> <<>>,              \* show_completion calls
      callbacks        |-> <<>>,              \* on_complete invocations
      spawned          |-> {},                \* steps Subprocess::newv succeeded for
      force_exited     |-> {},                \* processes force_exit was called on
      exits            |-> {},                \* <<step, what wait_async reported>>
      results          |-> {},                \* <<step, the CommandResult recorded>>
      slot_writes      |-> {},                \* <<step, what the slot held when its
                                              \*   process was stored>>
      lines_read       |-> 0 ]                \* lines the run's processes have written

\* a slot no run_commands_with_progress call has used yet
NoRun == [ NewRun(<<>>, FALSE) EXCEPT !.started = FALSE, !.window_open = FALSE ]

\* a formatted text: the fixed words and the (at most two) numbers put in it
Message(text, a, b) == [ text |-> text, a |-> a, b |-> b ]

Line(message, is_error) == [ message |-> message, is_error |-> is_error ]

\* executor.rs append_output: the error tag is in the buffer's tag table
append_output(s, line) ==
    [ s EXCEPT !.run.log = Append(@, line) ]

\* update_progress that shows the 0-based index of the step
update_progress_zero_based(s, current, total) ==
    [ s EXCEPT !.run.progress = [current |-> current - 1, total |-> total, text |-> "Step"] ]

update_progress(s, current, total) ==
    [ s EXCEPT !.run.progress = [current |-> current, total |-> total, text |-> "Step"] ]

\* show_completion that leaves the cancel button where it is
show_completion_keeping_cancel(s, success, message) ==
    LET shown == [ s EXCEPT !.run.close_visible = TRUE,
                            !.run.close_sensitive = TRUE,
                            !.run.completions = Append(@, [success |-> success, message |-> message]) ]
    IN  IF success
        THEN [ shown EXCEPT !.run.progress = [@ EXCEPT !.text = "Completed"] ]
        ELSE shown

show_completion(s, success, message) ==
    LET shown == [ s EXCEPT !.run.cancel_visible = FALSE,
                            !.run.close_visible = TRUE,
                            !.run.close_sensitive = TRUE,
                            !.run.completions = Append(@, [success |-> success, message |-> message]) ]
    IN  IF success
        THEN [ shown EXCEPT !.run.progress = [@ EXCEPT !.text = "Completed"] ]
        ELSE shown

disable_cancel(s) ==
    [ s EXCEPT !.run.cancel_sensitive = FALSE ]

\* the progress surface's updateStepStatus (spec.md section 6); context.rs
\* calls it, widgets.rs does not define it
update_task_status(s, index, status) ==
    [ s EXCEPT !.run.status = [@ EXCEPT ![index + 1] = status] ]

\* if let Some(callback) = on_complete { callback(value) }
callback(s, by, value) ==
    IF s.run.on_complete
    THEN [ s EXCEPT !.run.callbacks = Append(@, [by |-> by, value |-> value]) ]
    ELSE s

\* gio::Subprocess::force_exit on the process in the slot, if any
force_exit(s) ==
    IF s.run.current_process # NoProcess
    THEN [ s EXCEPT !.run.force_exited = @ \cup {s.run.current_process} ]
    ELSE s

(* ------------------------------ executor ------------------------------- *)
\* finalize_execution that leaves ACTION_RUNNING as it is
finalize_execution_keeping_flag(s, success, message) ==
    append_output(show_completion(s, success, message), Line(message, ~success))

finalize_execution(s, success, message) ==
    LET cleared == [ s EXCEPT !.running = FALSE ]
        shown   == show_completion(cleared, success, message)
    IN  append_output(shown, Line(message, ~success))

\* detect_aur_helper that probes yay before paru
detect_aur_helper_yay_first(in_path) ==
    IF "yay" \in in_path THEN "yay"
    ELSE IF "paru" \in in_path THEN "paru"
    ELSE None

detect_aur_helper(in_path) ==
    IF "paru" \in in_path THEN "paru"
    ELSE IF "yay" \in in_path THEN "yay"
    ELSE None

\* resolve_command that falls back on paru when it found no helper
resolve_command_defaulting_to_paru(command, env) ==
    CASE command.command_type = "Normal" ->
           [ ok |-> TRUE, program |-> command.command, args |-> command.args ]
      [] command.command_type = "Privileged" ->
           [ ok |-> TRUE, program |-> "pkexec", args |-> <<command.command>> \o command.args ]
      [] command.command_type = "Aur" ->
           LET helper == IF env.aur_helper # None THEN env.aur_helper
                         ELSE detect_aur_helper(env.in_path)
           IN  [ ok |-> TRUE, program |-> IF helper = None THEN "paru" ELSE helper,
                 args |-> <<"--sudo", "pkexec">> \o command.args ]

resolve_command(command, env) ==
    CASE command.command_type = "Normal" ->
           [ ok |-> TRUE, program |-> command.command, args |-> command.args ]
      [] command.command_type = "Privileged" ->
           [ ok |-> TRUE, program |-> "pkexec", args |-> <<command.command>> \o command.args ]
      [] command.command_type = "Aur" ->
           LET helper == IF env.aur_helper # None THEN env.aur_helper
                         ELSE detect_aur_helper(env.in_path)
           IN  IF helper = None
               THEN [ ok |-> FALSE, program |-> None, args |-> <<>> ]
               ELSE [ ok |-> TRUE, program |-> helper,
                      args |-> <<"--sudo", "pkexec">> \o command.args ]

\* no_pipe: the streams of the context's process that have no reader, because
\* the process came without that pipe (filled in by attach_stream_reader);
\* lines: how many lines the reader of each stream has taken from its pipe
RunningCommandContext_new(index) ==
    [ live |-> TRUE, index |-> index, stdout_done |-> FALSE, stderr_done |-> FALSE,
      exit_result |-> NoResult, no_pipe |-> {},
      lines |-> [ e \in BOOLEAN |-> 0 ] ]

\* executor.rs 24-30: the cancel flag is set when the executor is entered
sequence_cancelled(s) ==
    callback(finalize_execution(s, FALSE, Message("Operation cancelled", 0, 0)),
             "executor", FALSE)

\* sequence_completed that forgets to report to the caller
sequence_completed_without_callback(s) ==
    finalize_execution(s, TRUE, Message("All operations completed successfully!", 0, 0))

\* executor.rs 32-38: no step is left
sequence_completed(s) ==
    callback(finalize_execution(s, TRUE, Message("All operations completed successfully!", 0, 0)),
             "executor", TRUE)

\* executor.rs 59-66: resolve_command returned Err
resolution_failed(s) ==
    callback(
      finalize_execution(
        append_output(s, Line(Message("AUR helper not initialized", 0, 0), TRUE)),
        FALSE, Message("Failed to prepare command", 0, 0)),
      "executor", FALSE)

\* executor.rs 81-92: Subprocess::newv returned Err
spawn_failed(s) ==
    callback(
      finalize_execution(
        append_output(s, Line(Message("Failed to start command", 0, 0), TRUE)),
        FALSE, Message("Failed to start operation", 0, 0)),
      "executor", FALSE)

RECURSIVE mark_stream_done(_, _, _)

\* attach_stream_reader that starts no reader for a missing pipe and does not
\* mark the stream done either
attach_stream_reader_ignoring_missing_pipe(s, is_error_stream, env) ==
    IF is_error_stream \in env.no_pipe
    THEN [ s EXCEPT !.run.ctx.no_pipe = @ \cup {is_error_stream} ]
    ELSE s

\* with a pipe, read_stream starts the first read, whose callback is a later
\* event of the main loop; without one the stream is done at once
attach_stream_reader(s, is_error_stream, env) ==
    IF is_error_stream \in env.no_pipe
    THEN mark_stream_done([ s EXCEPT !.run.ctx.no_pipe = @ \cup {is_error_stream} ],
                          is_error_stream, env)
    ELSE s

\* spawned that leaves the process slot as it is
spawned_without_storing_process(s, index, env) ==
    LET stored == [ s EXCEPT !.run.spawned = @ \cup {index + 1},
                             !.run.ctx = RunningCommandContext_new(index) ]
    IN  attach_stream_reader(attach_stream_reader(stored, FALSE, env), TRUE, env)

\* executor.rs 95-131: the process is in the slot, a fresh context waits for
\* its two streams and its exit
spawned(s, index, env) ==
    LET stored == [ s EXCEPT !.run.slot_writes = @ \cup { <<index + 1, s.run.current_process>> },
                             !.run.current_process = index + 1,
                             !.run.spawned = @ \cup {index + 1},
                             !.run.ctx = RunningCommandContext_new(index) ]
    IN  attach_stream_reader(attach_stream_reader(stored, FALSE, env), TRUE, env)

\* the executor without its check of the cancel flag on entry
execute_commands_sequence_without_cancel_check(s, index, env) ==
    IF index >= Len(s.run.commands) THEN sequence_completed(s)
    ELSE
      LET cmd      == s.run.commands[index + 1]
          total    == Len(s.run.commands)
          header   == append_output(update_progress(s, index + 1, total),
                                    Line(Message("=== Step ===", index + 1, total), FALSE))
      IN  IF ~resolve_command(cmd, env).ok THEN resolution_failed(header)
          ELSE IF ~env.spawn_ok THEN spawn_failed(header)
          ELSE spawned(header, index, env)

\* the executor that takes the sequence for complete when the last step is
\* still to be dispatched
execute_commands_sequence_completing_one_step_early(s, index, env) ==
    IF s.run.cancelled THEN sequence_cancelled(s)
    ELSE IF index + 1 >= Len(s.run.commands) THEN sequence_completed(s)
    ELSE
      LET cmd      == s.run.commands[index + 1]
          total    == Len(s.run.commands)
          header   == append_output(update_progress(s, index + 1, total),
                                    Line(Message("=== Step ===", index + 1, total), FALSE))
      IN  IF ~resolve_command(cmd, env).ok THEN resolution_failed(header)
          ELSE IF ~env.spawn_ok THEN spawn_failed(header)
          ELSE spawned(header, index, env)

execute_commands_sequence(s, index, env) ==
    IF s.run.cancelled THEN sequence_cancelled(s)
    ELSE IF index >= Len(s.run.commands) THEN sequence_completed(s)
    ELSE
      LET cmd      == s.run.commands[index + 1]
          total    == Len(s.run.commands)
          header   == append_output(update_progress(s, index + 1, total),
                                    Line(Message("=== Step ===", index + 1, total), FALSE))
      IN  IF ~resolve_command(cmd, env).ok THEN resolution_failed(header)
          ELSE IF ~env.spawn_ok THEN spawn_failed(header)
          ELSE spawned(header, index, env)

(* ------------------------------ context -------------------------------- *)
\* step_cancelled that clears the cancel flag once the cancellation is reported
step_cancelled_clearing_flag(s) ==
    callback(finalize_execution([ s EXCEPT !.run.cancelled = FALSE ], FALSE,
                                Message("Operation cancelled", 0, 0)),
             "executor", FALSE)

\* context.rs 81-88
step_cancelled(s) ==
    callback(finalize_execution(s, FALSE, Message("Operation cancelled", 0, 0)),
             "executor", FALSE)

\* step_succeeded that does not go on to the next index
step_succeeded_without_advancing(s, index, env) ==
    append_output(update_task_status(s, index, "Success"),
                  Line(Message("Step completed successfully", 0, 0), FALSE))

\* step_succeeded that logs the success line when the executor has returned
\* from the next index
step_succeeded_logging_after_dispatch(s, index, env) ==
    append_output(
      execute_commands_sequence(update_task_status(s, index, "Success"), index + 1, env),
      Line(Message("Step completed successfully", 0, 0), FALSE))

\* context.rs 92-105
step_succeeded(s, index, env) ==
    execute_commands_sequence(
      append_output(update_task_status(s, index, "Success"),
                    Line(Message("Step completed successfully", 0, 0), FALSE)),
      index + 1, env)

\* step_failed that names the step by its 0-based index
step_failed_zero_based(s, index, exit_code) ==
    LET marked == update_task_status(s, index, "Failed")
        coded  == IF exit_code # {}
                  THEN append_output(
                         marked,
                         Line(Message("Command failed with exit code",
                                      CHOOSE code \in exit_code : TRUE, 0),
                              TRUE))
                  ELSE marked
    IN  callback(
          finalize_execution(
            coded, FALSE,
            Message("Operation failed at step", index, Len(s.run.commands))),
          "executor", FALSE)

\* context.rs 106-130
step_failed(s, index, exit_code) ==
    LET marked == update_task_status(s, index, "Failed")
        coded  == IF exit_code # {}
                  THEN append_output(
                         marked,
                         Line(Message("Command failed with exit code",
                                      CHOOSE code \in exit_code : TRUE, 0),
                              TRUE))
                  ELSE marked
    IN  callback(
          finalize_execution(
            coded, FALSE,
            Message("Operation failed at step", index + 1, Len(s.run.commands))),
          "executor", FALSE)

\* try_finalize that looks at the exit result before the cancel flag
try_finalize_result_before_cancelled(s, env) ==
    LET c == s.run.ctx
    IN  IF ~(c.stdout_done /\ c.stderr_done) THEN s
        ELSE IF c.exit_result = NoResult THEN s
        ELSE
          LET taken == [ s EXCEPT !.run.ctx = NoCtx, !.run.current_process = NoProcess ]
          IN  IF c.exit_result.tag = "Failure"
              THEN step_failed(taken, c.index, c.exit_result.exit_code)
              ELSE IF taken.run.cancelled THEN step_cancelled(taken)
              ELSE step_succeeded(taken, c.index, env)

\* try_finalize that finalizes on the exit result without waiting for the
\* two streams
try_finalize_without_waiting_for_streams(s, env) ==
    LET c == s.run.ctx
    IN  IF c.exit_result = NoResult THEN s
        ELSE
          LET taken == [ s EXCEPT !.run.ctx = NoCtx, !.run.current_process = NoProcess ]
          IN  IF taken.run.cancelled THEN step_cancelled(taken)
              ELSE IF c.exit_result.tag = "Success" THEN step_succeeded(taken, c.index, env)
              ELSE step_failed(taken, c.index, c.exit_result.exit_code)

\* try_finalize that goes on to the next step whatever the exit result is
try_finalize_ignoring_exit_result(s, env) ==
    LET c == s.run.ctx
    IN  IF ~(c.stdout_done /\ c.stderr_done) THEN s
        ELSE IF c.exit_result = NoResult THEN s
        ELSE
          LET taken == [ s EXCEPT !.run.ctx = NoCtx, !.run.current_process = NoProcess ]
          IN  IF taken.run.cancelled THEN step_cancelled(taken)
              ELSE step_succeeded(taken, c.index, env)

\* try_finalize that handles a successful exit before it looks at the cancel
\* flag
try_finalize_success_before_cancelled(s, env) ==
    LET c == s.run.ctx
    IN  IF ~(c.stdout_done /\ c.stderr_done) THEN s
        ELSE IF c.exit_result = NoResult THEN s
        ELSE
          LET taken == [ s EXCEPT !.run.ctx = NoCtx, !.run.current_process = NoProcess ]
          IN  IF c.exit_result.tag = "Success" THEN step_succeeded(taken, c.index, env)
              ELSE IF taken.run.cancelled THEN step_cancelled(taken)
              ELSE step_failed(taken, c.index, c.exit_result.exit_code)

\* try_finalize that leaves the finalized step's process in the slot
try_finalize_keeping_process(s, env) ==
    LET c == s.run.ctx
    IN  IF ~(c.stdout_done /\ c.stderr_done) THEN s
        ELSE IF c.exit_result = NoResult THEN s
        ELSE
          LET taken == [ s EXCEPT !.run.ctx = NoCtx ]
          IN  IF taken.run.cancelled THEN step_cancelled(taken)
              ELSE IF c.exit_result.tag = "Success" THEN step_succeeded(taken, c.index, env)
              ELSE step_failed(taken, c.index, c.exit_result.exit_code)

try_finalize(s, env) ==
    LET c == s.run.ctx
    IN  IF ~(c.stdout_done /\ c.stderr_done) THEN s
        ELSE IF c.exit_result = NoResult THEN s
        ELSE
          \* exit_result.take() and current_process.take(); every callback that
          \* held the context has run, so the context is dropped
          LET taken == [ s EXCEPT !.run.ctx = NoCtx, !.run.current_process = NoProcess ]
          IN  IF taken.run.cancelled THEN step_cancelled(taken)
              ELSE IF c.exit_result.tag = "Success" THEN step_succeeded(taken, c.index, env)
              ELSE step_failed(taken, c.index, c.exit_result.exit_code)

\* mark_stream_done that sets its flag and does not try to finalize
mark_stream_done_without_try_finalize(s, is_error_stream, env) ==
    IF is_error_stream
    THEN [ s EXCEPT !.run.ctx.stderr_done = TRUE ]
    ELSE [ s EXCEPT !.run.ctx.stdout_done = TRUE ]

mark_stream_done(s, is_error_stream, env) ==
    try_finalize(
      IF is_error_stream
      THEN [ s EXCEPT !.run.ctx.stderr_done = TRUE ]
      ELSE [ s EXCEPT !.run.ctx.stdout_done = TRUE ],
      env)

\* set_exit_result that records the result and does not try to finalize
set_exit_result_without_try_finalize(s, result, env) ==
    [ s EXCEPT !.run.ctx.exit_result = result,
               !.run.results = @ \cup { <<s.run.ctx.index + 1, result>> } ]

set_exit_result(s, result, env) ==
    try_finalize([ s EXCEPT !.run.ctx.exit_result = result,
                            !.run.results = @ \cup { <<s.run.ctx.index + 1, result>> } ],
                 env)

(* ------------------------- stream and wait callbacks ------------------- *)
\* the closure of read_line_utf8_async: res is "line" (Ok(Some(line))),
\* "eof" (Ok(None)) or "error" (Err)
\* read_stream that appends every line without the error tag
read_stream_without_error_tag(s, is_error_stream, res, env) ==
    CASE res = "line" ->
           LET n      == s.run.ctx.lines[is_error_stream] + 1
               logged == append_output(
                           s, Line(Message(IF is_error_stream THEN "stderr line" ELSE "stdout line",
                                           n, s.run.ctx.index + 1),
                                   FALSE))
           IN  [ logged EXCEPT !.run.ctx.lines[is_error_stream] = n,
                               !.run.lines_read = @ + 1 ]
      [] res = "eof" ->
           mark_stream_done(s, is_error_stream, env)
      [] res = "error" ->
           mark_stream_done(
             append_output(s, Line(Message("Failed to read command output", 0, 0), TRUE)),
             is_error_stream, env)

\* a pipe hands its lines over in the order the process wrote them, and a
\* stream has one read pending at a time (the next read_line_utf8_async is
\* started in the callback of the one before): the line a callback gets is
\* the n-th the process wrote to that stream, n - 1 having been read before;
\* the process is the one of the step the reader's context was made for
read_stream(s, is_error_stream, res, env) ==
    CASE res = "line" ->
           LET n      == s.run.ctx.lines[is_error_stream] + 1
               logged == append_output(
                           s, Line(Message(IF is_error_stream THEN "stderr line" ELSE "stdout line",
                                           n, s.run.ctx.index + 1),
                                   is_error_stream))
           IN  [ logged EXCEPT !.run.ctx.lines[is_error_stream] = n,
                               !.run.lines_read = @ + 1 ]
      [] res = "eof" ->
           mark_stream_done(s, is_error_stream, env)
      [] res = "error" ->
           mark_stream_done(
             append_output(s, Line(Message("Failed to read command output", 0, 0), TRUE)),
             is_error_stream, env)

\* the closure of wait_async: res is "successful" (Ok, is_successful()),
\* "unsuccessful" (Ok, exit status code) or "error" (Err)
\* the wait handler that logs a wait error and goes on as if the process had
\* exited successfully
wait_async_error_as_success(s, res, code, env) ==
    LET reported == [ s EXCEPT !.run.exits = @ \cup { <<s.run.ctx.index + 1, res>> } ]
    IN  CASE res = "successful" ->
               set_exit_result(reported, CommandResult_Success, env)
          [] res = "unsuccessful" ->
               set_exit_result(reported, CommandResult_Failure({code}), env)
          [] res = "error" ->
               set_exit_result(
                 append_output(reported,
                               Line(Message("Failed to wait for command", 0, 0), TRUE)),
                 CommandResult_Success, env)

\* the wait handler that records a failure without the exit status
wait_async_dropping_exit_code(s, res, code, env) ==
    LET reported == [ s EXCEPT !.run.exits = @ \cup { <<s.run.ctx.index + 1, res>> } ]
    IN  CASE res = "successful" ->
               set_exit_result(reported, CommandResult_Success, env)
          [] res = "unsuccessful" ->
               set_exit_result(reported, CommandResult_Failure({}), env)
          [] res = "error" ->
               set_exit_result(
                 append_output(reported,
                               Line(Message("Failed to wait for command", 0, 0), TRUE)),
                 CommandResult_Failure({}), env)

wait_async(s, res, code, env) ==
    LET reported == [ s EXCEPT !.run.exits = @ \cup { <<s.run.ctx.index + 1, res>> } ]
    IN  CASE res = "successful" ->
               set_exit_result(reported, CommandResult_Success, env)
          [] res = "unsuccessful" ->
               set_exit_result(reported, CommandResult_Failure({code}), env)
          [] res = "error" ->
               set_exit_result(
                 append_output(reported,
                               Line(Message("Failed to wait for command", 0, 0), TRUE)),
                 CommandResult_Failure({}), env)

(* ------------------------- handlers of the dialog ---------------------- *)
\* the cancel handler that sets the flag but leaves the process alone
cancel_clicked_without_force_exit(s) ==
    disable_cancel(
      append_output([ s EXCEPT !.run.cancelled = TRUE ],
                    Line(Message("[Cancelled by user]", 0, 0), TRUE)))

cancel_clicked(s) ==
    force_exit(
      disable_cancel(
        append_output([ s EXCEPT !.run.cancelled = TRUE ],
                      Line(Message("[Cancelled by user]", 0, 0), TRUE))))

\* a window close handler that reports a completion of its own
close_request_showing_completion(s) ==
    [ callback(force_exit(finalize_execution(s, FALSE, Message("Operation cancelled", 0, 0))),
               "close_request", FALSE)
        EXCEPT !.run.window_open = FALSE ]

\* connect_close_request; Propagation::Proceed lets GTK destroy the window
close_request(s) ==
    [ callback(force_exit([ s EXCEPT !.running = FALSE ]), "close_request", FALSE)
        EXCEPT !.run.window_open = FALSE ]

\* close_button.connect_clicked: window.close() emits close-request, whose
\* handler runs before close() returns
close_clicked(s) ==
    callback(close_request(s), "close_button", TRUE)

(* ------------------------------ actions -------------------------------- *)
World(r) == [ running |-> ACTION_RUNNING, run |-> runs[r] ]

\* the run without what it has shown and done so far: only the fields the
\* code reads are left
Unrecorded(run) ==
    LET fresh == NewRun(run.commands, run.on_complete)
    IN  [ run EXCEPT !.progress = fresh.progress, !.status = fresh.status,
                     !.log = fresh.log, !.completions = fresh.completions,
                     !.callbacks = fresh.callbacks, !.spawned = fresh.spawned,
                     !.force_exited = fresh.force_exited, !.exits = fresh.exits,
                     !.results = fresh.results,
                     !.slot_writes = fresh.slot_writes,
                     !.lines_read = fresh.lines_read ]

Commit(r, s) ==
    /\ ACTION_RUNNING' = s.running
    /\ runs' = [ runs EXCEPT ![r] = IF scope.recorded THEN s.run ELSE Unrecorded(s.run) ]
    /\ UNCHANGED <<app_log, scope, call>>

\* log::error! and log::warn! of run_commands_with_progress
app_logged(message) ==
    /\ app_log' = IF scope.app_log THEN message ELSE app_log
    /\ UNCHANGED <<ACTION_RUNNING, runs, scope, call>>

\* the environments a specification follows
EnvsFollowed ==
    IF scope.pipes = "all" THEN { env \in Envs : env.no_pipe = {} } ELSE Envs

\* the slots a new run can take
FreeSlots == { r \in 1..scope.slots : ~runs[r].started }

\* run_commands_with_progress without its is_action_running() check
run_commands_with_progress_without_running_check(commands, on_complete, env) ==
    IF commands = <<>>
    THEN app_logged("No commands provided")
    ELSE /\ FreeSlots # {}
         /\ LET r == CHOOSE x \in FreeSlots : \A y \in FreeSlots : x <= y
            IN  Commit(r, execute_commands_sequence(
                            [ running |-> TRUE, run |-> NewRun(commands, on_complete) ],
                            0, env))

\* run_commands_with_progress without its commands.is_empty() check
run_commands_with_progress_without_empty_check(commands, on_complete, env) ==
    IF ACTION_RUNNING
    THEN app_logged("Action already running - ignoring request")
    ELSE /\ FreeSlots # {}
         /\ LET r == CHOOSE x \in FreeSlots : \A y \in FreeSlots : x <= y
            IN  Commit(r, execute_commands_sequence(
                            [ running |-> TRUE, run |-> NewRun(commands, on_complete) ],
                            0, env))

run_commands_with_progress(commands, on_complete, env) ==
    IF commands = <<>>
    THEN app_logged("No commands provided")
    ELSE IF ACTION_RUNNING
    THEN app_logged("Action already running - ignoring request")
    ELSE /\ FreeSlots # {}
         /\ LET r == CHOOSE x \in FreeSlots : \A y \in FreeSlots : x <= y
            IN  Commit(r, execute_commands_sequence(
                            [ running |-> TRUE, run |-> NewRun(commands, on_complete) ],
                            0, env))

Request ==
    \E commands \in (IF scope.lists = "normal" THEN NormalLists ELSE CommandLists),
       on_complete \in CallbackOptions :
        \E env \in (IF commands = <<>> \/ ACTION_RUNNING THEN {CHOOSE e \in EnvsFollowed : TRUE} ELSE EnvsFollowed) :
            run_commands_with_progress(commands, on_complete, env)

CancelClicked ==
    \E r \in RunIds :
        /\ runs[r].window_open
        /\ runs[r].cancel_visible /\ runs[r].cancel_sensitive
        /\ Commit(r, cancel_clicked(World(r)))

CloseClicked ==
    \E r \in RunIds :
        /\ runs[r].window_open
        /\ runs[r].close_visible /\ runs[r].close_sensitive
        /\ Commit(r, close_clicked(World(r)))

WindowCloseRequest ==
    \E r \in RunIds :
        /\ runs[r].window_open
        /\ Commit(r, close_request(World(r)))

StreamRead ==
    \E r \in RunIds, is_error_stream \in BOOLEAN, res \in {"line", "eof", "error"} :
        /\ runs[r].ctx.live
        /\ is_error_stream \notin runs[r].ctx.no_pipe
        /\ IF is_error_stream THEN ~runs[r].ctx.stderr_done ELSE ~runs[r].ctx.stdout_done
        /\ res = "line" => runs[r].lines_read < scope.lines
        /\ \E s \in { read_stream(World(r), is_error_stream, res, env) : env \in EnvsFollowed } :
               Commit(r, s)

WaitCompleted ==
    \E r \in RunIds, res \in {"successful", "unsuccessful", "error"}, code \in ExitCodes :
        /\ runs[r].ctx.live
        /\ runs[r].ctx.exit_result = NoResult
        /\ \E s \in { wait_async(World(r), res, code, env) : env \in EnvsFollowed } :
               Commit(r, s)

Next ==
    \/ Request
    \/ CancelClicked
    \/ CloseClicked
    \/ WindowCloseRequest
    \/ StreamRead
    \/ WaitCompleted

InitWith(followed) ==
    /\ ACTION_RUNNING = FALSE
    /\ runs = [ r \in RunIds |-> NoRun ]
    /\ app_log = "none"
    /\ scope = followed
    /\ call = [ op |-> "none" ]

\* one run of any command list; what it shows, spawns and calls back is recorded
Init ==
    InitWith([ slots |-> 1, lists |-> "any", recorded |-> TRUE,
               lines |-> 0, pipes |-> "all", app_log |-> FALSE ])

Spec == Init /\ [][Next]_vars

\* the same run where the main loop delivers what is pending: a stream that
\* is still open reports its end (or an error), a process that was spawned
\* exits and its wait completes
Fairness == WF_vars(StreamRead) /\ WF_vars(WaitCompleted)

SpecFair == Init /\ [][Next]_vars /\ Fairness

\* MaxRuns runs side by side: the running flag, the requests it rejects and
\* the state the code reads
InitRuns ==
    InitWith([ slots |-> MaxRuns, lists |-> "normal", recorded |-> FALSE,
               lines |-> 0, pipes |-> "all", app_log |-> TRUE ])

SpecRuns == InitRuns /\ [][Next]_vars

(* ----------------- what run_commands_with_progress logs ----------------- *)
\* one run of any command list with everything it shows and does, and the
\* line run_commands_with_progress sends to the application log
InitLogged ==
    InitWith([ slots |-> 1, lists |-> "any", recorded |-> TRUE,
               lines |-> 0, pipes |-> "all", app_log |-> TRUE ])

SpecLogged == InitLogged /\ [][Next]_vars

(* --------------- processes that come without a pipe -------------------- *)
\* one run of steps whose processes may lack the stdout pipe, the stderr pipe
\* or both (Subprocess::stdout_pipe / stderr_pipe answer None), where the main
\* loop delivers what is pending
InitUnpiped ==
    InitWith([ slots |-> 1, lists |-> "normal", recorded |-> TRUE,
               lines |-> 0, pipes |-> "any", app_log |-> FALSE ])

SpecUnpiped == InitUnpiped /\ [][Next]_vars /\ Fairness

(* ------------------- the lines the processes write --------------------- *)
\* one run of plain steps whose processes write up to MaxLines lines, on
\* stdout and stderr in any interleaving
InitLines ==
    InitWith([ slots |-> 1, lists |-> "normal", recorded |-> TRUE,
               lines |-> MaxLines, pipes |-> "all", app_log |-> FALSE ])

SpecLines == InitLines /\ [][Next]_vars

(* ------------- events delivered to a finalized context ----------------- *)
\* how many events are delivered to contexts that were already finalized
MaxExtraEvents == 1

\* the RunningCommandContext of the step at index as try_finalize leaves it:
\* both flags set, the exit result taken
FinalizedContext(index) ==
    [ live |-> FALSE, index |-> index, stdout_done |-> TRUE, stderr_done |-> TRUE,
      exit_result |-> NoResult, no_pipe |-> {},
      lines |-> [ e \in BOOLEAN |-> 0 ] ]

ExtraEvents ==
    { [ op |-> "mark_stream_done", is_error_stream |-> e, result |-> NoResult ] : e \in BOOLEAN }
      \cup
    { [ op |-> "set_exit_result", is_error_stream |-> FALSE, result |-> res ] :
        res \in { CommandResult_Success, CommandResult_Failure({}) }
                 \cup { CommandResult_Failure({code}) : code \in ExitCodes } }

\* mark_stream_done or set_exit_result called on the given context
Deliver(s, event, env) ==
    IF event.op = "mark_stream_done"
    THEN mark_stream_done(s, event.is_error_stream, env)
    ELSE set_exit_result(s, event.result, env)

InitExtra ==
    /\ ACTION_RUNNING = FALSE
    /\ runs = [ r \in RunIds |-> NoRun ]
    /\ app_log = "none"
    /\ scope = [ slots |-> 1, lists |-> "any", recorded |-> TRUE,
                 lines |-> 0, pipes |-> "all", app_log |-> FALSE ]
    /\ call = [ op |-> "extra_event", delivered |-> 0 ]

\* one more event on the context of a step of a run that has no step in
\* flight (all its contexts are finalized); a call that returns without
\* finalizing leaves the run as it was
ExtraEvent ==
    /\ call.op = "extra_event"
    /\ call.delivered < MaxExtraEvents
    /\ \E r \in RunIds, event \in ExtraEvents :
          /\ runs[r].started /\ ~runs[r].ctx.live
          /\ \E k \in runs[r].spawned :
                \E s \in { Deliver([ World(r) EXCEPT !.run.ctx = FinalizedContext(k - 1) ],
                                    event, env) : env \in EnvsFollowed } :
                    /\ ACTION_RUNNING' = s.running
                    /\ runs' = [ runs EXCEPT ![r] =
                                   IF s.run.ctx = FinalizedContext(k - 1)
                                   THEN [ s.run EXCEPT !.ctx = runs[r].ctx ]
                                   ELSE s.run ]
    /\ call' = [ call EXCEPT !.delivered = @ + 1 ]
    /\ UNCHANGED <<app_log, scope>>

SpecExtra == InitExtra /\ [][Next \/ ExtraEvent]_vars

(* ------------------- resolve_command on arbitrary steps ---------------- *)
\* the steps resolve_command is tried on: every command type with every
\* program name and argument list below (CommandStep::new takes any)
ResolveInputs ==
    { CommandStep_new(t, c, a) :
        t \in CommandType, c \in {"echo", "aur"}, a \in { <<>>, <<"hi">>, <<"-S", "pkg">> } }

\* every answer of aur_helper() with every set of helpers found in PATH
ResolveEnvs ==
    { Env(h, p, TRUE, {}) : h \in AurHelpers \cup {None}, p \in SUBSET AurHelpers }

NotResolved == [ ok |-> FALSE, program |-> None, args |-> <<>> ]

InitResolve ==
    /\ ACTION_RUNNING = FALSE
    /\ runs = [ r \in RunIds |-> NoRun ]
    /\ app_log = "none"
    /\ scope = [ slots |-> 1, lists |-> "any", recorded |-> TRUE,
                 lines |-> 0, pipes |-> "all", app_log |-> FALSE ]
    /\ \E command \in ResolveInputs, env \in ResolveEnvs :
          call = [ op |-> "resolve_command", command |-> command, env |-> env,
                   returned |-> FALSE, result |-> NotResolved ]

Resolve ==
    /\ call.op = "resolve_command"
    /\ ~call.returned
    /\ call' = [ call EXCEPT !.returned = TRUE,
                             !.result = resolve_command(call.command, call.env) ]
    /\ UNCHANGED <<ACTION_RUNNING, runs, app_log, scope>>

SpecResolve == InitResolve /\ [][Resolve]_vars

(* ---------------------- the GPU driver selection ----------------------- *)
\* the ids of the options setup_gpu_drivers puts in its selection dialog
GpuOptions == { "nvidia_closed", "nvidia_open", "cuda" }

\* what the dialog may hand to its callback: ids in any order and number
Selections == SeqsUpTo(GpuOptions, MaxSelected)

\* selected.contains(&id.to_string())
contains(selected, id) == \E i \in 1..Len(selected) : selected[i] = id

\* task_runner::Command, as drivers.rs builds it
Command_aur(args, description) ==
    [ command_type |-> "Aur", program |-> "aur", args |-> args, description |-> description ]

Command_privileged(program, args, description) ==
    [ command_type |-> "Privileged", program |-> program, args |-> args,
      description |-> description ]

NvidiaClosedStep ==
    Command_aur(<< "-S", "--needed", "--noconfirm", "libvdpau", "egl-wayland", "nvidia-dkms",
                   "nvidia-utils", "opencl-nvidia", "libvdpau-va-gl", "nvidia-settings",
                   "vulkan-icd-loader", "lib32-nvidia-utils", "lib32-opencl-nvidia",
                   "linux-firmware-nvidia", "lib32-vulkan-icd-loader" >>,
                "Installing NVIDIA proprietary drivers...")

NvidiaOpenStep ==
    Command_aur(<< "-S", "--needed", "--noconfirm", "libvdpau", "egl-wayland", "nvidia-utils",
                   "opencl-nvidia", "libvdpau-va-gl", "nvidia-settings", "nvidia-open-dkms",
                   "vulkan-icd-loader", "lib32-nvidia-utils", "lib32-opencl-nvidia",
                   "linux-firmware-nvidia", "lib32-vulkan-icd-loader" >>,
                "Installing NVIDIA open source drivers...")

CudaStep ==
    Command_aur(<< "-S", "--needed", "--noconfirm", "cuda", "cudnn" >>,
                "Installing CUDA Toolkit...")

NvSetupStep ==
    Command_privileged("bash", << "/opt/xero-toolkit/scripts/nv-setup.sh" >>,
                       "Configuring NVIDIA drivers...")

\* commands.push(step) under a condition
pushed(commands, condition, step) ==
    IF condition THEN Append(commands, step) ELSE commands

\* build_gpu_driver_commands that runs the NVIDIA configuration whenever
\* anything was selected
build_gpu_driver_commands_configuring_for_cuda(selected) ==
    LET closed == pushed(<<>>, contains(selected, "nvidia_closed"), NvidiaClosedStep)
        open   == pushed(closed, contains(selected, "nvidia_open"), NvidiaOpenStep)
        cuda   == pushed(open, contains(selected, "cuda"), CudaStep)
    IN  pushed(cuda, cuda # <<>>, NvSetupStep)

build_gpu_driver_commands(selected) ==
    LET closed == pushed(<<>>, contains(selected, "nvidia_closed"), NvidiaClosedStep)
        open   == pushed(closed, contains(selected, "nvidia_open"), NvidiaOpenStep)
        cuda   == pushed(open, contains(selected, "cuda"), CudaStep)
        driver_selected == contains(selected, "nvidia_closed") \/ contains(selected, "nvidia_open")
    IN  pushed(cuda, driver_selected, NvSetupStep)

\* the callback setup_gpu_drivers gives to show_selection_dialog: what it
\* built, whether it showed the conflict error, and the list it handed to
\* task_runner::run (none: the empty set)
setup_gpu_drivers(selected) ==
    IF contains(selected, "nvidia_closed") /\ contains(selected, "nvidia_open")
    THEN [ built |-> {}, error_shown |-> TRUE, run |-> {} ]
    ELSE LET commands == build_gpu_driver_commands(selected)
         IN  [ built |-> {commands}, error_shown |-> FALSE,
               run |-> IF commands # <<>> THEN {commands} ELSE {} ]

\* build_gpu_driver_commands on a selection, and the dialog's callback on the
\* same selection
InitDrivers ==
    /\ ACTION_RUNNING = FALSE
    /\ runs = [ r \in RunIds |-> NoRun ]
    /\ app_log = "none"
    /\ scope = [ slots |-> 1, lists |-> "any", recorded |-> TRUE,
                 lines |-> 0, pipes |-> "all", app_log |-> FALSE ]
    /\ \E selected \in Selections :
          call = [ op |-> "setup_gpu_drivers", selected |-> selected, returned |-> FALSE,
                   commands |-> <<>>, handled |-> [ built |-> {}, error_shown |-> FALSE, run |-> {} ] ]

SelectionConfirmed ==
    /\ call.op = "setup_gpu_drivers"
    /\ ~call.returned
    /\ call' = [ call EXCEPT !.returned = TRUE,
                             !.commands = build_gpu_driver_commands(call.selected),
                             !.handled = setup_gpu_drivers(call.selected) ]
    /\ UNCHANGED <<ACTION_RUNNING, runs, app_log, scope>>

SpecDrivers == InitDrivers /\ [][SelectionConfirmed]_vars

(* ------------- execute_commands_sequence on arbitrary arguments --------- *)
\* the start indexes tried: inside the list, at its end and past it
StartIndexes == 0..(MaxSteps + 1)

\* any command list, any start index, the cancel flag set or not, and what
\* the environment answers during the call
InitEntry ==
    /\ ACTION_RUNNING = TRUE
    /\ \E commands \in CommandLists, cancelled \in BOOLEAN :
          runs = [ r \in RunIds |->
                     IF r = 1
                     THEN [ NewRun(commands, TRUE) EXCEPT !.cancelled = cancelled ]
                     ELSE NoRun ]
    /\ app_log = "none"
    /\ scope = [ slots |-> 1, lists |-> "any", recorded |-> TRUE,
                 lines |-> 0, pipes |-> "all", app_log |-> FALSE ]
    /\ \E index \in StartIndexes, env \in EnvsFollowed :
          call = [ op |-> "execute_commands_sequence", index |-> index, env |-> env,
                   returned |-> FALSE ]

EnterExecutor ==
    /\ call.op = "execute_commands_sequence"
    /\ ~call.returned
    /\ LET s == execute_commands_sequence(World(1), call.index, call.env)
       IN  /\ ACTION_RUNNING' = s.running
           /\ runs' = [ runs EXCEPT ![1] = s.run ]
    /\ call' = [ call EXCEPT !.returned = TRUE ]
    /\ UNCHANGED <<app_log, scope>>

SpecEntry == InitEntry /\ [][EnterExecutor]_vars

\* the executor as the main loop reaches it (a run that starts at its first
\* step and goes on from try_finalize) and as a direct call reaches it
InitEntryOrRun == Init \/ InitEntry

NextEntryOrRun ==
    \/ call.op = "none" /\ Next
    \/ EnterExecutor

SpecEntryOrRun == InitEntryOrRun /\ [][NextEntryOrRun]_vars


(* ======================= properties of the executor ==================== *)
StartedRuns == { r \in RunIds : runs[r].started }

ByExecutor(c) == c.by = "executor"

\* the on_complete invocations the executor made (not the dialog's handlers)
ExecutorCalls(x) == SelectSeq(x.callbacks, ByExecutor)

Called(by, value) == [ by |-> by, value |-> value ]

Steps(x) == 1..Len(x.commands)

\* the step reached its finalization: its context is gone
Finalized(x, k) == k \in x.spawned /\ ~(x.ctx.live /\ x.ctx.index + 1 = k)

AllExitedSuccessfully(x) == \A k \in Steps(x) : <<k, "successful">> \in x.exits

\* C1: in a run whose every process exited successfully and that was not
\* cancelled, the executor has not called on_complete while the last step is
\* still to finalize, and once it has finalized the executor has called it
\* exactly once, with true, a process having been spawned for every step.
C1_AllSucceedCallsBackOnceTrue ==
    \A r \in StartedRuns :
        LET x == runs[r]
        IN  (AllExitedSuccessfully(x) /\ ~x.cancelled) =>
              IF x.ctx.live
              THEN ExecutorCalls(x) = <<>>
              ELSE /\ ExecutorCalls(x) = << Called("executor", TRUE) >>
                   /\ x.spawned = Steps(x)

C1_Witness ==
    \E r \in StartedRuns :
        /\ Len(runs[r].commands) = 2
        /\ AllExitedSuccessfully(runs[r])
        /\ ~runs[r].ctx.live
        /\ ExecutorCalls(runs[r]) = << Called("executor", TRUE) >>


\* C2: in a run that was not cancelled and whose step k exited with failure
\* (the steps before it having exited successfully), steps 1..k-1 are marked
\* Success, no process was spawned for a step after k, and once step k has
\* finalized it is marked Failed and the executor has called on_complete
\* exactly once, with false (and not at all before that).
C2_FirstFailureStopsTheRun ==
    \A r \in StartedRuns :
        LET x == runs[r]
        IN  \A k \in Steps(x) :
              (<<k, "unsuccessful">> \in x.exits /\ ~x.cancelled) =>
                /\ \A j \in 1..(k - 1) :
                     <<j, "successful">> \in x.exits /\ x.status[j] = "Success"
                /\ x.spawned = 1..k
                /\ IF Finalized(x, k)
                   THEN /\ x.status[k] = "Failed"
                        /\ ExecutorCalls(x) = << Called("executor", FALSE) >>
                   ELSE /\ x.status[k] = "Pending"
                        /\ ExecutorCalls(x) = <<>>

C2_Witness ==
    \E r \in StartedRuns :
        /\ Len(runs[r].commands) = 2
        /\ <<1, "unsuccessful">> \in runs[r].exits
        /\ ~runs[r].cancelled
        /\ Finalized(runs[r], 1)
        /\ runs[r].status = << "Failed", "Pending" >>

CancelledCompletion == [ success |-> FALSE, message |-> Message("Operation cancelled", 0, 0) ]

\* C3: once the cancel button was clicked, which can only happen while some
\* step k is in flight, force_exit was called on step k's process and on no
\* other, no process was spawned for a step after k, nothing is finalized
\* while step k's streams or exit are outstanding, and when they have all
\* arrived the run is finalized as cancelled: one completion, a failure with
\* the cancellation message, and one on_complete(false) from the executor.
C3_CancelInFlight ==
    \A r \in StartedRuns :
        LET x == runs[r]
        IN  x.cancelled =>
              \E k \in Steps(x) :
                /\ x.force_exited = {k}
                /\ x.spawned = 1..k
                /\ IF x.ctx.live
                   THEN /\ x.ctx.index + 1 = k
                        /\ x.completions = <<>>
                        /\ ExecutorCalls(x) = <<>>
                   ELSE /\ x.completions = << CancelledCompletion >>
                        /\ ExecutorCalls(x) = << Called("executor", FALSE) >>

C3_Witness ==
    \E r \in StartedRuns :
        /\ Len(runs[r].commands) = 2
        /\ runs[r].cancelled
        /\ runs[r].force_exited = {1}
        /\ <<1, "successful">> \in runs[r].exits
        /\ ~runs[r].ctx.live
        /\ runs[r].completions = << CancelledCompletion >>

\* C4: when execute_commands_sequence is entered with the cancel flag set,
\* whatever the command list and the start index, it resolves and spawns
\* nothing (no step header, no progress update, no process, no context), it
\* finalizes the run as cancelled, and it calls on_complete once, with false.
C4_CancelledOnEntry ==
    (call.op = "execute_commands_sequence" /\ call.returned /\ runs[1].cancelled) =>
        /\ runs[1].spawned = {}
        /\ runs[1].current_process = NoProcess
        /\ ~runs[1].ctx.live
        /\ runs[1].progress = NewRun(runs[1].commands, TRUE).progress
        /\ runs[1].log = << Line(Message("Operation cancelled", 0, 0), TRUE) >>
        /\ runs[1].completions = << CancelledCompletion >>
        /\ runs[1].callbacks = << Called("executor", FALSE) >>
        /\ ~ACTION_RUNNING

C4_Witness ==
    /\ call.op = "execute_commands_sequence" /\ call.returned
    /\ runs[1].cancelled
    /\ call.index = 0
    /\ Len(runs[1].commands) = 2
    /\ runs[1].callbacks = << Called("executor", FALSE) >>


(* ===================== properties of the running flag ================== *)
RejectedMessage == "Action already running - ignoring request"

\* C5: while ACTION_RUNNING is set no run comes into being, and the step in
\* which run_commands_with_progress rejects a request (it logs the warning)
\* changes no object of any run (step index, cancel flag, process slot,
\* context, dialog) and not the flag: nothing of the request is kept that
\* could run later.
C5_RejectedRequestHasNoEffect ==
    [][ ACTION_RUNNING =>
          /\ { r \in RunIds : runs'[r].started } = StartedRuns
          /\ (app_log' = RejectedMessage /\ app_log # RejectedMessage) =>
                (runs' = runs /\ ACTION_RUNNING' = ACTION_RUNNING) ]_vars

C5_Witness ==
    /\ app_log = RejectedMessage
    /\ ACTION_RUNNING
    /\ StartedRuns = {1}
    /\ runs[1].ctx.live /\ runs[1].ctx.index = 0 /\ runs[1].current_process = 1
    /\ 2 \in FreeSlots

\* C6 (as claimed): at no time do two runs have a spawned step that has not
\* finalized.
C6_AtMostOneLiveRun ==
    Cardinality({ r \in RunIds : runs[r].ctx.live }) <= 1

\* a run came to an end in this step: the executor finalized it, or its
\* window was closed
Ended(r) ==
    \/ Len(runs'[r].completions) > Len(runs[r].completions)
    \/ runs[r].window_open /\ ~runs'[r].window_open

\* C7: every step that ends a run (overall success, step failure, resolution
\* error, spawn error, cancellation, the window being closed) leaves
\* ACTION_RUNNING false; and the flag is never set without a step in flight,
\* so no finished run keeps a later request out.
C7_FlagClearedOnEveryOutcome ==
    /\ [][ \A r \in RunIds : Ended(r) => ~ACTION_RUNNING' ]_vars
    /\ [](ACTION_RUNNING => \E r \in StartedRuns : runs[r].ctx.live)

C7_Witness ==
    \E r \in StartedRuns :
        /\ runs[r].completions =
             << [ success |-> FALSE, message |-> Message("Failed to start operation", 0, 0) ] >>
        /\ runs[r].window_open
        /\ ~ACTION_RUNNING

(* ======================= the completion callback ======================= *)
\* C8 (as claimed): over the life of a run on_complete is never invoked a
\* second time, whoever invokes it.
C8_CalledBackAtMostOnce ==
    \A r \in StartedRuns : Len(runs[r].callbacks) <= 1

\* C9 (as claimed): every value on_complete is given by the close button
\* handler or by the window close handler is false.
C9_DismissalReportsFailure ==
    \A r \in StartedRuns :
        \A i \in 1..Len(runs[r].callbacks) :
            runs[r].callbacks[i].by \in {"close_button", "close_request"} =>
                runs[r].callbacks[i].value = FALSE

(* ============================ error policy ============================= *)
IsHeader(line) == line.message.text = "=== Step ==="

\* the step (1-based) during which line p of the log was written
StepAt(x, p) == Cardinality({ q \in 1..p : IsHeader(x.log[q]) })

HeaderAfter(x, p) == \E q \in (p + 1)..Len(x.log) : IsHeader(x.log[q])

TerminalErrors ==
    { "AUR helper not initialized", "Failed to start command", "Failed to wait for command" }

ReadError == "Failed to read command output"

\* C10 (as claimed): after the log line of a resolution, spawn, wait or
\* stream read error no further step is started.
C10_EveryErrorIsTerminal ==
    \A r \in StartedRuns :
        \A p \in 1..Len(runs[r].log) :
            runs[r].log[p].message.text \in TerminalErrors \cup {ReadError} =>
                ~HeaderAfter(runs[r], p)

\* C10 (amended): a resolution, spawn or wait error at step k writes an
\* error-tagged line, no step after k is started, and once step k is over
\* the run is finalized once, as a failure, with one on_complete(false) from
\* the executor.  A stream read error writes an error-tagged line too but
\* only ends its stream: if the step's process exited successfully and the
\* run was not cancelled, the step finalizes as succeeded: step k+1 starts,
\* or the run completes with success when k is the last step.
C10_ErrorsExceptReadErrorsAreTerminal ==
    \A r \in StartedRuns :
        LET x == runs[r]
        IN  \A p \in 1..Len(x.log) :
              LET k == StepAt(x, p)
              IN  /\ x.log[p].message.text \in TerminalErrors =>
                       /\ x.log[p].is_error
                       /\ ~HeaderAfter(x, p)
                       /\ x.spawned \subseteq 1..k
                       /\ ~x.ctx.live =>
                            /\ Len(x.completions) = 1 /\ ~x.completions[1].success
                            /\ ExecutorCalls(x) = << Called("executor", FALSE) >>
                  /\ x.log[p].message.text = ReadError =>
                       /\ x.log[p].is_error
                       /\ (Finalized(x, k) /\ <<k, "successful">> \in x.exits /\ ~x.cancelled) =>
                            /\ k < Len(x.commands) => HeaderAfter(x, p)
                            /\ k = Len(x.commands) =>
                                 /\ Len(x.completions) = 1 /\ x.completions[1].success
                                 /\ ExecutorCalls(x) = << Called("executor", TRUE) >>

\* a read error at step 1, and step 2 was started all the same
C10_Witness ==
    \E r \in StartedRuns :
        /\ \E p \in 1..Len(runs[r].log) :
              /\ runs[r].log[p].message.text = ReadError
              /\ StepAt(runs[r], p) = 1
              /\ HeaderAfter(runs[r], p)
        /\ 2 \in runs[r].spawned
        /\ \E p \in 1..Len(runs[r].log) :
              /\ runs[r].log[p].message.text = "Failed to wait for command"
              /\ StepAt(runs[r], p) = 2
        /\ ~runs[r].ctx.live
        /\ ExecutorCalls(runs[r]) = << Called("executor", FALSE) >>


(* ===================== finalization of a step ========================== *)
\* the step in flight in run r is finalized in this step: its context is
\* dropped (a context that is live afterwards belongs to the next step)
Finalizes(r) ==
    /\ runs[r].ctx.live
    /\ ~(runs'[r].ctx.live /\ runs'[r].ctx.index = runs[r].ctx.index)

\* C11: a step that finalizes while the cancel flag is set ends the run as
\* cancelled, whatever its exit result is: no further step is dispatched
\* (no header, no process, no context), the step is not marked, the one
\* completion shown is the cancellation message (never the failure at step
\* message), and the executor calls on_complete once more, with false.
C11_CancelledTakesPrecedence ==
    [][ \A r \in RunIds :
          (Finalizes(r) /\ runs[r].cancelled) =>
            /\ ~runs'[r].ctx.live
            /\ runs'[r].current_process = NoProcess
            /\ runs'[r].spawned = runs[r].spawned
            /\ runs'[r].status = runs[r].status
            /\ runs'[r].progress = runs[r].progress
            /\ runs'[r].completions = Append(runs[r].completions, CancelledCompletion)
            /\ ExecutorCalls(runs'[r]) =
                 Append(ExecutorCalls(runs[r]), Called("executor", FALSE))
            /\ \E extra \in {0, 1} :
                 /\ Len(runs'[r].log) = Len(runs[r].log) + extra + 1
                 /\ runs'[r].log[Len(runs'[r].log)] =
                      Line(CancelledCompletion.message, TRUE) ]_vars

\* cancelled during step 2, whose process then exited with a failure code
C11_Witness ==
    \E r \in StartedRuns :
        /\ runs[r].cancelled
        /\ runs[r].force_exited = {2}
        /\ <<2, "unsuccessful">> \in runs[r].exits
        /\ ~runs[r].ctx.live
        /\ runs[r].completions = << CancelledCompletion >>
        /\ runs[r].spawned = {1, 2}


(* ========================= the progress surface ======================== *)
\* C12: a run has shown no completion while a step is in flight, and once no
\* step is in flight it has shown exactly one (one show_completion call),
\* whose message is the last line of the log, tagged as an error unless it
\* reports success, and is on no other line; and every run that started
\* comes to show its completion, the window being open or closed.
C12_OneCompletionOneMatchingLine ==
    /\ [](\A r \in StartedRuns :
            LET x == runs[r]
            IN  IF x.ctx.live
                THEN x.completions = <<>>
                ELSE /\ Len(x.completions) = 1
                     /\ x.log # <<>>
                     /\ x.log[Len(x.log)] =
                          Line(x.completions[1].message, ~x.completions[1].success)
                     /\ Cardinality({ p \in 1..Len(x.log) :
                                        x.log[p].message = x.completions[1].message }) = 1)
    /\ (StartedRuns # {}) ~> (\A r \in StartedRuns : Len(runs[r].completions) = 1)

\* the window was closed while step 1 was in flight, and the run still came
\* to its one completion
C12_Witness ==
    \E r \in StartedRuns :
        /\ ~runs[r].window_open
        /\ runs[r].callbacks # <<>>
        /\ runs[r].callbacks[1] = Called("close_request", FALSE)
        /\ runs[r].force_exited = {1}
        /\ ~runs[r].cancelled
        /\ Len(runs[r].completions) = 1


Controls(x) == << x.cancel_visible, x.close_visible, x.close_sensitive >>

\* C13: as long as a run has not been finalized its cancel button is visible
\* and its close button is neither visible nor sensitive; once it has been
\* finalized the cancel button is hidden and the close button is visible and
\* sensitive; and the only steps that change any of the three are the ones
\* in which the run is finalized.
C13_ControlsFollowFinalization ==
    /\ [](\A r \in StartedRuns :
            Controls(runs[r]) = IF runs[r].completions = <<>>
                                THEN << TRUE, FALSE, FALSE >>
                                ELSE << FALSE, TRUE, TRUE >>)
    /\ [][ \A r \in RunIds :
              Controls(runs'[r]) # Controls(runs[r]) =>
                Len(runs'[r].completions) = Len(runs[r].completions) + 1 ]_vars

\* finalized after a cancel click: the cancel button, disabled by the click,
\* is hidden, and the close button is there
C13_Witness ==
    \E r \in StartedRuns :
        /\ runs[r].window_open
        /\ ~runs[r].cancel_sensitive
        /\ runs[r].completions = << CancelledCompletion >>
        /\ Controls(runs[r]) = << FALSE, TRUE, TRUE >>


(* ============================== resolution ============================= *)
\* the executor was called on the step at call.index, the cancel flag not set
EnteredAtStep ==
    /\ call.op = "execute_commands_sequence" /\ call.returned
    /\ ~runs[1].cancelled
    /\ call.index < Len(runs[1].commands)

NoHelperAnywhere(env) == env.aur_helper = None /\ env.in_path \cap AurHelpers = {}

\* C14: when the executor is entered on an Aur step, at whatever index, with
\* no helper configured and neither paru nor yay in PATH, resolve_command
\* returns an error, no process is spawned and no context created, the
\* process slot stays empty, the error is logged with the error tag, and the
\* run is finalized as failed with one on_complete(false).
C14_AurWithoutHelperFails ==
    (/\ EnteredAtStep
     /\ runs[1].commands[call.index + 1].command_type = "Aur"
     /\ NoHelperAnywhere(call.env)) =>
        /\ ~resolve_command(runs[1].commands[call.index + 1], call.env).ok
        /\ runs[1].spawned = {}
        /\ runs[1].current_process = NoProcess
        /\ ~runs[1].ctx.live
        /\ runs[1].log =
             << Line(Message("=== Step ===", call.index + 1, Len(runs[1].commands)), FALSE),
                Line(Message("AUR helper not initialized", 0, 0), TRUE),
                Line(Message("Failed to prepare command", 0, 0), TRUE) >>
        /\ runs[1].completions =
             << [ success |-> FALSE, message |-> Message("Failed to prepare command", 0, 0) ] >>
        /\ runs[1].callbacks = << Called("executor", FALSE) >>
        /\ ~ACTION_RUNNING

\* an Aur step in second place, entered at index 1 with no helper anywhere
C14_Witness ==
    /\ EnteredAtStep
    /\ call.index = 1
    /\ runs[1].commands[2].command_type = "Aur"
    /\ NoHelperAnywhere(call.env)
    /\ runs[1].callbacks = << Called("executor", FALSE) >>


InArgs(word, args) == \E i \in 1..Len(args) : args[i] = word

\* C15: resolve_command gives, for a Normal step, its program and arguments
\* as they are; for a Privileged step, pkexec with the program put in front
\* of the arguments; for an Aur step, the helper with --sudo pkexec put in
\* front of the arguments, the helper being the configured one if there is
\* one, else paru if it is in PATH, else yay if it is in PATH (and an error
\* if neither is); the Aur step's own program name is not in the invocation.
C15_ResolveMapping ==
    (call.op = "resolve_command" /\ call.returned) =>
        LET c   == call.command
            e   == call.env
            out == call.result
        IN  /\ c.command_type = "Normal" =>
                 out.ok /\ out.program = c.command /\ out.args = c.args
            /\ c.command_type = "Privileged" =>
                 /\ out.ok /\ out.program = "pkexec"
                 /\ Len(out.args) = Len(c.args) + 1
                 /\ Head(out.args) = c.command
                 /\ Tail(out.args) = c.args
            /\ c.command_type = "Aur" =>
                 /\ out.ok <=> (e.aur_helper # None \/ e.in_path # {})
                 /\ out.ok =>
                      /\ e.aur_helper # None => out.program = e.aur_helper
                      /\ (e.aur_helper = None /\ "paru" \in e.in_path) => out.program = "paru"
                      /\ (e.aur_helper = None /\ "paru" \notin e.in_path) => out.program = "yay"
                      /\ Len(out.args) = Len(c.args) + 2
                      /\ SubSeq(out.args, 1, 2) = << "--sudo", "pkexec" >>
                      /\ SubSeq(out.args, 3, Len(out.args)) = c.args
                      /\ out.program # c.command
                      /\ ~InArgs(c.command, out.args)

\* nothing configured, both helpers in PATH: paru wins
C15_Witness ==
    /\ call.op = "resolve_command" /\ call.returned
    /\ call.command.command_type = "Aur"
    /\ call.command.args = << "-S", "pkg" >>
    /\ call.env.aur_helper = None
    /\ call.env.in_path = {"paru", "yay"}
    /\ call.result.program = "paru"
    /\ call.result.args = << "--sudo", "pkexec", "-S", "pkg" >>


(* ============================ step statuses ============================ *)
\* C16 (as claimed): the step whose process is in flight has the status
\* Running (it left Pending when it was dispatched and has not reached
\* Success yet).
C16_StepInFlightIsRunning ==
    \A r \in StartedRuns :
        runs[r].ctx.live => runs[r].status[runs[r].ctx.index + 1] = "Running"


(* ============================== liveness =============================== *)
\* C17: whenever a run has been cancelled (which happens while a step is in
\* flight), then, the process's exit and the end of its two streams being
\* delivered at some time, the run comes to be finalized as cancelled: no
\* step in flight, the cancellation message as its one completion.
C17_CancelledRunIsFinalized ==
    (\E r \in StartedRuns : runs[r].cancelled) ~>
        (\A r \in StartedRuns :
            runs[r].cancelled =>
                /\ ~runs[r].ctx.live
                /\ runs[r].current_process = NoProcess
                /\ runs[r].completions = << CancelledCompletion >>)

\* cancelled during step 1; waiting for the killed process failed, and the
\* run was finalized as cancelled all the same
C17_Witness ==
    \E r \in StartedRuns :
        /\ runs[r].cancelled
        /\ runs[r].force_exited = {1}
        /\ <<1, "error">> \in runs[r].exits
        /\ ~runs[r].ctx.live
        /\ runs[r].completions = << CancelledCompletion >>


(* ============================== progress =============================== *)
Headers(x) == { p \in 1..Len(x.log) : IsHeader(x.log[p]) }

SuccessCompletion ==
    [ success |-> TRUE, message |-> Message("All operations completed successfully!", 0, 0) ]

\* C18: the progress of a run of n steps is always (number of steps
\* dispatched so far, n): it is (i+1, n) while the step of index i is in
\* flight, as the step's header says, it never exceeds n, each step that
\* changes it adds exactly one, and when the run has completed with success
\* it stands at n of n.
C18_ProgressCountsDispatchedSteps ==
    /\ [](\A r \in StartedRuns :
            LET x == runs[r]
                n == Len(x.commands)
            IN  /\ x.progress.total = n
                /\ x.progress.current = Cardinality(Headers(x))
                /\ x.progress.current \in 1..n
                /\ \A p \in Headers(x) :
                     x.log[p].message = Message("=== Step ===", StepAt(x, p), n)
                /\ x.ctx.live => x.progress.current = x.ctx.index + 1
                /\ x.completions = << SuccessCompletion >> => x.progress.current = n)
    /\ [][ \A r \in RunIds :
              runs'[r].progress.current # runs[r].progress.current =>
                runs'[r].progress.current = runs[r].progress.current + 1 ]_vars

C18_Witness ==
    \E r \in StartedRuns :
        /\ Len(runs[r].commands) = 2
        /\ runs[r].completions = << SuccessCompletion >>
        /\ runs[r].progress = [ current |-> 2, total |-> 2, text |-> "Completed" ]


(* ========================== the failure message ======================== *)
\* the process of step k did not exit successfully: it exited with a failure
\* code, or waiting for it failed
ExitedWithFailure(x, k) ==
    <<k, "unsuccessful">> \in x.exits \/ <<k, "error">> \in x.exits

FailedAtStep(k, n) == [ success |-> FALSE, message |-> Message("Operation failed at step", k, n) ]

\* C19: when step k (1-based, the step of index k-1) of a run of n steps has
\* finalized with a Failure result and the run was not cancelled, the one
\* completion reported is "Operation failed at step k of n", and it is the
\* last line of the log; and no run reports a failure at a step other than
\* the one step that failed, or with a length other than its own.
C19_FailureNamesStepAndLength ==
    \A r \in StartedRuns :
        LET x == runs[r]
            n == Len(x.commands)
        IN  /\ \A k \in Steps(x) :
                 (Finalized(x, k) /\ ExitedWithFailure(x, k) /\ ~x.cancelled) =>
                     /\ x.completions = << FailedAtStep(k, n) >>
                     /\ x.log[Len(x.log)] = Line(FailedAtStep(k, n).message, TRUE)
            /\ \A i \in 1..Len(x.completions) :
                 x.completions[i].message.text = "Operation failed at step" =>
                     /\ x.completions[i].message.b = n
                     /\ x.completions[i].message.a \in Steps(x)
                     /\ ExitedWithFailure(x, x.completions[i].message.a)
                     /\ x.spawned = 1..x.completions[i].message.a

\* the second of two steps exits with a failure code
C19_Witness ==
    \E r \in StartedRuns :
        /\ Len(runs[r].commands) = 2
        /\ <<2, "unsuccessful">> \in runs[r].exits
        /\ runs[r].completions = << FailedAtStep(2, 2) >>


(* ===================== the three events of a step ====================== *)
\* how many of stdout done, stderr done and exit result the context has
Arrived(c) ==
    (IF c.stdout_done THEN 1 ELSE 0) + (IF c.stderr_done THEN 1 ELSE 0)
      + (IF c.exit_result # NoResult THEN 1 ELSE 0)

\* C20: for every spawned step, in whatever order stdout done, stderr done
\* and the exit result arrive: the step is finalized in the step in which the
\* third of them arrives and in no other (never by a click or a close); an
\* arrival that is the first or the second only records itself, finalizing,
\* dispatching and reporting nothing; and a step that was finalized never has
\* a context again, so it is finalized once.
C20_FinalizedOnceByTheThirdEvent ==
    /\ [](\A r \in StartedRuns :
            runs[r].ctx.live =>
                /\ Arrived(runs[r].ctx) < 3
                /\ runs[r].spawned = 1..(runs[r].ctx.index + 1)
                /\ runs[r].current_process = runs[r].ctx.index + 1)
    /\ [][ \A r \in RunIds :
              runs[r].ctx.live =>
                LET c == runs[r].ctx
                    d == runs'[r].ctx
                IN  /\ Finalizes(r) =>
                         /\ Arrived(c) = 2
                         /\ runs'[r].cancelled = runs[r].cancelled
                         /\ runs'[r].window_open = runs[r].window_open
                         /\ d.live => d.index = c.index + 1 /\ d.exit_result = NoResult
                    /\ (~Finalizes(r) /\ d # c) =>
                         /\ Arrived(c) < 2
                         /\ Arrived(d) = Arrived(c) + 1
                         /\ c.stdout_done => d.stdout_done
                         /\ c.stderr_done => d.stderr_done
                         /\ c.exit_result # NoResult => d.exit_result = c.exit_result
                         /\ runs'[r].completions = runs[r].completions
                         /\ runs'[r].callbacks = runs[r].callbacks
                         /\ runs'[r].spawned = runs[r].spawned
                         /\ runs'[r].current_process = runs[r].current_process
                         /\ runs'[r].status = runs[r].status
                         /\ runs'[r].progress = runs[r].progress
                         /\ ACTION_RUNNING' = ACTION_RUNNING ]_vars

\* the exit arrived first (waiting failed), then both streams ended with a
\* read error, and the step was finalized after the third
C20_Witness ==
    \E r \in StartedRuns :
        /\ Len(runs[r].log) >= 4
        /\ runs[r].log[2].message.text = "Failed to wait for command"
        /\ runs[r].log[3].message.text = ReadError
        /\ runs[r].log[4].message.text = ReadError
        /\ ~runs[r].ctx.live
        /\ runs[r].completions = << FailedAtStep(1, Len(runs[r].commands)) >>


(* ================= events after a step has finalized =================== *)
\* C21 (as claimed): an event delivered to the context of a step that has
\* already finalized (a further end of stdout or stderr, a second exit
\* result) changes nothing of the run: no step is dispatched, no completion
\* shown, no callback invoked, the running flag is as it was.
C21_ExtraEventIsNoOp ==
    [][ call' # call => (runs' = runs /\ ACTION_RUNNING' = ACTION_RUNNING) ]_vars


(* ========================== one step at a time ========================= *)
\* C22: the processes of a run are spawned for steps 1, 2, ... in turn, and
\* the process of a step after the first is spawned only in the very step
\* in which the context of the step before it, having two of its three
\* events, receives the third and is finalized, its exit being successful; so
\* every spawned step but the last one spawned has finalized, and only that
\* last one can be in flight.
C22_StepsRunOneAfterAnother ==
    /\ [](\A r \in StartedRuns :
            LET x == runs[r]
                last == Cardinality(x.spawned)
            IN  /\ x.spawned = 1..last
                /\ \A k \in 1..(last - 1) :
                     Finalized(x, k) /\ <<k, "successful">> \in x.exits
                /\ x.ctx.live => x.ctx.index + 1 = last)
    /\ [][ \A r \in RunIds :
              runs'[r].spawned # runs[r].spawned =>
                LET k == Cardinality(runs[r].spawned)
                IN  /\ runs'[r].spawned = runs[r].spawned \cup {k + 1}
                    /\ runs'[r].ctx.live /\ runs'[r].ctx.index = k
                    /\ runs'[r].ctx.exit_result = NoResult
                    /\ k > 0 =>
                         /\ runs[r].ctx.live /\ runs[r].ctx.index + 1 = k
                         /\ Arrived(runs[r].ctx) = 2
                         /\ <<k, "successful">> \in runs'[r].exits ]_vars

\* step 2 is in flight, step 1 having finalized after a read error on one of
\* its streams
C22_Witness ==
    \E r \in StartedRuns :
        /\ runs[r].spawned = {1, 2}
        /\ runs[r].ctx.live /\ runs[r].ctx.index = 1
        /\ runs[r].ctx.stderr_done /\ ~runs[r].ctx.stdout_done
        /\ \E p \in 1..Len(runs[r].log) :
              runs[r].log[p].message.text = ReadError /\ StepAt(runs[r], p) = 1

(* ========================== the process slot =========================== *)
\* C23: the process slot holds one process or none. Its content changes to a
\* process only where that process is spawned (a new step, whose context is
\* then the live one), and every such write found the slot empty: the
\* process of the step before had been taken out by that step's finalization,
\* in the same callback, before the next step was dispatched. The slot loses
\* a process only in the finalization of the step the process belongs to, and
\* never holds a finalized step's process afterwards.
C23_SlotWrittenAtSpawnIntoEmptySlot ==
    [][ \A r \in RunIds :
          LET held  == runs[r].current_process
              holds == runs'[r].current_process
          IN  /\ \A w \in runs'[r].slot_writes : w[2] = NoProcess
              /\ holds # held /\ holds # NoProcess =>
                    /\ holds \in runs'[r].spawned \ runs[r].spawned
                    /\ <<holds, NoProcess>> \in runs'[r].slot_writes \ runs[r].slot_writes
                    /\ runs'[r].ctx.live /\ runs'[r].ctx.index + 1 = holds
              /\ runs'[r].slot_writes # runs[r].slot_writes =>
                    holds # held /\ holds # NoProcess
              /\ held # NoProcess /\ holds # held =>
                    Finalizes(r) /\ runs[r].ctx.index + 1 = held
              /\ Finalizes(r) => held # NoProcess /\ holds # held
      ]_vars

\* the second step's process is in the slot; both processes were stored
C23_Witness ==
    \E r \in StartedRuns :
        /\ runs[r].current_process = 2
        /\ { w[1] : w \in runs[r].slot_writes } = {1, 2}

(* ========================= the cancel flag ============================== *)
\* C24: the cancel flag of a run is false when the run is created, and once
\* it is true no callback of the run (a dispatch, a stream event, an exit
\* event, a finalization, a click on close, a window close) makes it false
\* again.
C24_CancelFlagIsMonotonic ==
    [][ \A r \in RunIds :
          /\ ~runs[r].started /\ runs'[r].started => ~runs'[r].cancelled
          /\ runs[r].started /\ runs[r].cancelled => runs'[r].cancelled
      ]_vars

\* a cancelled run after its step was finalized as cancelled and its window
\* was closed: the flag is still set
C24_Witness ==
    \E r \in StartedRuns :
        /\ runs[r].cancelled
        /\ runs[r].spawned # {} /\ ~runs[r].ctx.live
        /\ Len(ExecutorCalls(runs[r])) = 1
        /\ ~runs[r].window_open

(* ===================== a stream without a pipe ========================= *)
\* the flag of a stream in a context
StreamDone(c, is_error_stream) == IF is_error_stream THEN c.stderr_done ELSE c.stdout_done

\* the context of step k + 1 is alive and its process lacks a pipe
Unpiped(r, k) ==
    runs[r].ctx.live /\ runs[r].ctx.index = k /\ runs[r].ctx.no_pipe # {}

\* C25: a stream for which the spawned process has no pipe is done from the
\* moment the readers are attached, in the callback that spawns the step. A
\* context is never left alive with both streams done and the exit result
\* recorded, so the step finalizes in the callback that brings the last of
\* what is still missing. No step finalizes before wait_async has reported its
\* exit, however many of its streams were done at attach time. Every step
\* whose process lacks a pipe is finalized in the end.
C25_UnavailableStreamIsDoneAtAttach ==
    /\ [](\A r \in StartedRuns :
             runs[r].ctx.live =>
               /\ \A e \in runs[r].ctx.no_pipe : StreamDone(runs[r].ctx, e)
               /\ Arrived(runs[r].ctx) < 3)
    /\ [][ \A r \in RunIds :
             Finalizes(r) =>
               /\ Arrived(runs[r].ctx) = 2
               /\ \E res \in {"successful", "unsuccessful", "error"} :
                     <<runs[r].ctx.index + 1, res>> \in runs'[r].exits
         ]_vars
    /\ \A k \in 0..(MaxSteps - 1) :
          (\E r \in StartedRuns : Unpiped(r, k))
            ~> (\A r \in StartedRuns : ~(runs[r].ctx.live /\ runs[r].ctx.index = k))

\* the second step's process has neither pipe: both streams are done, the
\* step waits for its exit result
C25_Witness ==
    \E r \in StartedRuns :
        /\ Unpiped(r, 1) /\ runs[r].ctx.no_pipe = {FALSE, TRUE}
        /\ runs[r].ctx.stdout_done /\ runs[r].ctx.stderr_done
        /\ runs[r].ctx.exit_result = NoResult
        /\ runs[r].current_process = 2

(* ====================== the lines of a step ============================ *)
\* the text of a line read from a stream
StreamLine(is_error_stream) == IF is_error_stream THEN "stderr line" ELSE "stdout line"

\* the positions in the log of the lines step k's process wrote to a stream
LinesOf(x, k, is_error_stream) ==
    { p \in 1..Len(x.log) :
        x.log[p].message.text = StreamLine(is_error_stream) /\ StepAt(x, p) = k }

\* C26: in the log, the lines one step's process wrote to one stream stand
\* in the order the process wrote them (the i-th of them in the log is the
\* i-th line written to that stream), however the lines of the other stream
\* are interleaved with them; every stderr line carries the error tag and no
\* stdout line does.
C26_StreamLinesKeepTheirOrder ==
    \A r \in StartedRuns :
        LET x == runs[r]
        IN  /\ \A k \in Steps(x), e \in BOOLEAN :
                  \A p \in LinesOf(x, k, e) :
                      x.log[p].message.a = Cardinality({ q \in LinesOf(x, k, e) : q <= p })
            /\ \A p \in 1..Len(x.log) :
                  /\ x.log[p].message.text = StreamLine(TRUE) => x.log[p].is_error
                  /\ x.log[p].message.text = StreamLine(FALSE) => ~x.log[p].is_error

\* a stderr line was logged between the first and the second stdout line of
\* one step
C26_Witness ==
    \E r \in StartedRuns :
        \E p, q \in LinesOf(runs[r], 1, FALSE) :
            /\ runs[r].log[p].message.a = 1 /\ runs[r].log[q].message.a = 2
            /\ \E m \in LinesOf(runs[r], 1, TRUE) : p < m /\ m < q

(* ===================== the end of the sequence ========================= *)
\* the executor has called on_complete with true
CalledBackTrue(x) ==
    \E i \in 1..Len(x.callbacks) : x.callbacks[i] = Called("executor", TRUE)

\* C27: a call of execute_commands_sequence with the cancel flag not set and
\* an index at or past the end of the list spawns nothing (no header, no
\* process, no context), finalizes the run as overall success (the running
\* flag is cleared, the success completion is shown) and calls on_complete
\* once, with true; a call with an index inside the list reports no success.
\* In a run started by run_commands_with_progress the success completion and
\* the executor's on_complete(true) come together, at most once, and only
\* when every step of the list was spawned, exited successfully and was
\* finalized.
C27_SuccessOnlyPastTheLastStep ==
    /\ (call.op = "execute_commands_sequence" /\ call.returned /\ ~runs[1].cancelled) =>
          IF call.index >= Len(runs[1].commands)
          THEN /\ runs[1].spawned = {}
               /\ runs[1].current_process = NoProcess
               /\ ~runs[1].ctx.live
               /\ runs[1].progress.current = 0
               /\ runs[1].log = << Line(SuccessCompletion.message, FALSE) >>
               /\ runs[1].completions = << SuccessCompletion >>
               /\ runs[1].callbacks = << Called("executor", TRUE) >>
               /\ ~ACTION_RUNNING
          ELSE /\ \A i \in 1..Len(runs[1].completions) : ~runs[1].completions[i].success
               /\ ~CalledBackTrue(runs[1])
    /\ call.op = "none" =>
          \A r \in StartedRuns :
              LET x == runs[r]
              IN  /\ CalledBackTrue(x) <=> (\E i \in 1..Len(x.completions) : x.completions[i].success)
                  /\ CalledBackTrue(x) =>
                        /\ x.completions = << SuccessCompletion >>
                        /\ ExecutorCalls(x) = << Called("executor", TRUE) >>
                        /\ x.spawned = Steps(x)
                        /\ AllExitedSuccessfully(x)
                        /\ \A k \in Steps(x) : Finalized(x, k)
                        /\ x.current_process = NoProcess

\* a direct call past the end of a two-step list has returned
C27_Witness ==
    /\ call.op = "execute_commands_sequence" /\ call.returned
    /\ ~runs[1].cancelled
    /\ Len(runs[1].commands) = 2 /\ call.index = 3
    /\ runs[1].callbacks = << Called("executor", TRUE) >>

\* a run of two steps has ended with the executor's on_complete(true)
C27_WitnessRun ==
    /\ call.op = "none"
    /\ \E r \in StartedRuns : Len(runs[r].commands) = 2 /\ CalledBackTrue(runs[r])

(* ========================= the exit result ============================= *)
\* the CommandResult that belongs to what wait_async reported
ResultOf(res) ==
    CASE res = "successful"   -> { CommandResult_Success }
      [] res = "unsuccessful" -> { CommandResult_Failure({code}) : code \in ExitCodes }
      [] res = "error"        -> { CommandResult_Failure({}) }

\* C28: the result recorded for a step is Success exactly when the wait
\* succeeded and the process exited successfully, a Failure with the exit
\* status when the wait succeeded and the process did not, and a Failure
\* without a code when the wait failed. Results are recorded for spawned
\* steps only, one for each exit wait_async reported and never two for a
\* step; a step that was finalized has exactly one, and the context of a step
\* in flight holds the recorded result or none yet.
C28_ExitResultFollowsTheWait ==
    \A r \in StartedRuns :
        LET x == runs[r]
        IN  /\ \A w \in x.results :
                  /\ w[1] \in x.spawned
                  /\ \E e \in x.exits : e[1] = w[1] /\ w[2] \in ResultOf(e[2])
            /\ \A e \in x.exits : \E w \in x.results : w[1] = e[1]
            /\ \A k \in x.spawned :
                  /\ Cardinality({ w \in x.results : w[1] = k }) <= 1
                  /\ Cardinality({ e \in x.exits : e[1] = k }) <= 1
                  /\ Finalized(x, k) => \E w \in x.results : w[1] = k
            /\ x.ctx.live =>
                  IF x.ctx.exit_result = NoResult
                  THEN \A w \in x.results : w[1] # x.ctx.index + 1
                  ELSE <<x.ctx.index + 1, x.ctx.exit_result>> \in x.results

\* the first step exited successfully, the second with a failure status that
\* is recorded while its streams are still open
C28_Witness ==
    \E r \in StartedRuns :
        /\ runs[r].results = { <<1, CommandResult_Success>>, <<2, CommandResult_Failure({1})>> }
        /\ runs[r].ctx.live /\ runs[r].ctx.exit_result = CommandResult_Failure({1})

(* ======================= every run comes to an end ===================== *)
\* the run has its outcome: no step is in flight, its one completion is
\* shown and the executor has called on_complete once
Terminal(x) ==
    /\ ~x.ctx.live
    /\ Len(x.completions) = 1
    /\ Len(ExecutorCalls(x)) = 1

\* a callback of the step in flight is still to come: the end of a stream
\* that has a reader, or the process's exit
EventPending(x) ==
    /\ x.ctx.live
    /\ \/ \E e \in BOOLEAN \ x.ctx.no_pipe : ~StreamDone(x.ctx, e)
       \/ x.ctx.exit_result = NoResult

\* C29: a run that run_commands_with_progress started is at all times either
\* terminal or waiting for a callback that is still to come (a stream's end
\* or the process's exit); and, every process exiting and every stream ending
\* (or failing) at some time, every such run becomes terminal, the executor
\* having called on_complete, whether it was cancelled, closed or left alone.
C29_EveryRunTerminates ==
    /\ [](\A r \in StartedRuns : Terminal(runs[r]) \/ EventPending(runs[r]))
    /\ (StartedRuns # {}) ~> (\A r \in StartedRuns : Terminal(runs[r]))

\* a run of two steps ended with the failure of its second step
C29_Witness ==
    \E r \in StartedRuns :
        /\ Terminal(runs[r])
        /\ runs[r].spawned = {1, 2}
        /\ ExecutorCalls(runs[r]) = << Called("executor", FALSE) >>
        /\ ~runs[r].cancelled

(* ================== the slot and the cancel button ===================== *)
\* the log line both cancellation branches write
CancelledLine == Line(Message("Operation cancelled", 0, 0), TRUE)

StepSucceededLine == Line(Message("Step completed successfully", 0, 0), FALSE)

\* the executor was entered with the cancel flag set: its cancellation line
\* is the first of the log (entered by run_commands_with_progress) or stands
\* right after the success line of a step (entered by try_finalize)
CancelledAtEntry(x) ==
    \E p \in 1..Len(x.log) :
        /\ x.log[p] = CancelledLine
        /\ p = 1 \/ x.log[p - 1] = StepSucceededLine

\* C30: between two callbacks the process slot of a run holds a process
\* exactly when a step of the run is spawned and not finalized yet, and it is
\* that step's process. Hence a click on cancel, which the dialog allows
\* only before the completion is shown, finds a process in the slot and calls
\* force_exit on it; and the executor is never entered with the cancel flag
\* set in a run started by run_commands_with_progress: a cancelled run is
\* finalized by try_finalize before the next index is tried.
C30_SlotHoldsTheStepInFlight ==
    /\ [](\A r \in StartedRuns :
             LET x == runs[r]
             IN  /\ x.current_process # NoProcess <=> x.ctx.live
                 /\ x.ctx.live => /\ x.current_process = x.ctx.index + 1
                                  /\ x.current_process \in x.spawned
                 /\ ~CancelledAtEntry(x))
    /\ [][ \A r \in RunIds :
             (runs[r].started /\ ~runs[r].cancelled /\ runs'[r].cancelled) =>
                 /\ runs[r].ctx.live /\ runs[r].completions = <<>>
                 /\ runs[r].current_process # NoProcess
                 /\ runs'[r].force_exited = runs[r].force_exited \cup { runs[r].current_process }
                 /\ runs[r].current_process \notin runs[r].force_exited
         ]_vars

\* cancel was clicked while the second step was in flight, and the step
\* has been finalized since
C30_Witness ==
    \E r \in StartedRuns :
        /\ runs[r].cancelled
        /\ runs[r].force_exited = {2}
        /\ runs[r].current_process = NoProcess
        /\ runs[r].log[Len(runs[r].log)] = CancelledLine

(* =================== the lines of a step and the next step ============= *)
\* the positions in the log of lines read from the streams of step k's process
OutputOf(x, k) ==
    { p \in 1..Len(x.log) :
        /\ x.log[p].message.text \in { StreamLine(FALSE), StreamLine(TRUE) }
        /\ x.log[p].message.b = k }

\* the positions of the success lines written for step k
SuccessOf(x, k) ==
    { p \in 1..Len(x.log) : x.log[p] = StepSucceededLine /\ StepAt(x, p) = k }

\* the positions of step k's header
HeaderOf(x, k) ==
    { p \in 1..Len(x.log) : IsHeader(x.log[p]) /\ x.log[p].message.a = k }

\* C31: every line read from a stream of step k's process is in the log
\* after step k's header and before the header of step k + 1, and before the
\* success line of step k where there is one; a step has at most one success
\* line, and the header of step k + 1 is written only when step k has one,
\* right after it.
C31_OutputPrecedesTheNextHeader ==
    \A r \in StartedRuns :
        LET x == runs[r]
        IN  \A k \in Steps(x) :
              /\ Cardinality(SuccessOf(x, k)) <= 1
              /\ Cardinality(HeaderOf(x, k)) <= 1
              /\ \A p \in OutputOf(x, k) :
                    /\ \E h \in HeaderOf(x, k) : h < p
                    /\ \A m \in SuccessOf(x, k) : p < m
                    /\ \A h \in HeaderOf(x, k + 1) : p < h
              /\ \A h \in HeaderOf(x, k + 1) :
                    \E m \in SuccessOf(x, k) : h = m + 1

\* step 1 wrote to both streams and succeeded, step 2 was dispatched and
\* wrote a line
C31_Witness ==
    \E r \in StartedRuns :
        /\ Cardinality(OutputOf(runs[r], 1)) = 2
        /\ \E p, q \in OutputOf(runs[r], 1) :
              runs[r].log[p].is_error /\ ~runs[r].log[q].is_error
        /\ HeaderOf(runs[r], 2) # {}
        /\ OutputOf(runs[r], 2) # {}

(* ======================= a cancelled step's status ===================== *)
\* C32: the callback that finalizes a step while the cancel flag is set
\* makes no update_task_status call (every status stays as it was) and
\* writes the cancellation line to the log, after the report of a failed
\* wait or a failed read if that is what the callback brought: no success
\* line, no exit code line, whatever the step's exit result is. So the step that was
\* in flight when cancel was clicked stays Pending: it is never marked
\* Success or Failed.
C32_CancelledStepIsNotMarked ==
    /\ [][ \A r \in RunIds :
             (Finalizes(r) /\ runs[r].cancelled) =>
                 /\ runs'[r].status = runs[r].status
                 /\ \E report \in { <<>>,
                                     << Line(Message("Failed to wait for command", 0, 0), TRUE) >>,
                                     << Line(Message(ReadError, 0, 0), TRUE) >> } :
                       runs'[r].log = runs[r].log \o report \o << CancelledLine >>
         ]_vars
    /\ [](\A r \in StartedRuns :
             runs[r].cancelled =>
                 \A k \in runs[r].force_exited : runs[r].status[k] = "Pending")

\* cancel was clicked during step 2, whose process then exited successfully;
\* the step is finalized and still Pending
C32_Witness ==
    \E r \in StartedRuns :
        /\ runs[r].cancelled
        /\ runs[r].results = { <<1, CommandResult_Success>>, <<2, CommandResult_Success>> }
        /\ Finalized(runs[r], 2)
        /\ runs[r].status = <<"Success", "Pending">>

(* ========================= the empty request =========================== *)
EmptyMessage == "No commands provided"

\* C33: the step in which run_commands_with_progress is called with an empty
\* list (it logs the error) leaves ACTION_RUNNING as it was, set or not, and
\* changes no object of any run: no window, no process, no context, no
\* on_complete call; and no run ever exists for an empty list.
C33_EmptyRequestHasNoEffect ==
    /\ [][ (app_log' = EmptyMessage /\ app_log # EmptyMessage) =>
              (runs' = runs /\ ACTION_RUNNING' = ACTION_RUNNING) ]_vars
    /\ [](\A r \in StartedRuns : runs[r].commands # <<>>)

\* the empty request came while a run had its first step in flight: flag
\* and run are as they were
C33_Witness ==
    /\ app_log = EmptyMessage
    /\ ACTION_RUNNING
    /\ \E r \in StartedRuns :
          /\ runs[r].ctx.live /\ runs[r].ctx.index = 0
          /\ Arrived(runs[r].ctx) = 0
          /\ runs[r].callbacks = <<>>

(* ===================== the GPU driver command list ===================== *)
\* what a step of the list installs or does
StepKinds == << "nvidia_closed", "nvidia_open", "cuda", "nv-setup" >>

KindOf(step) ==
    CASE step.command_type = "Privileged" -> "nv-setup"
      [] \E i \in 1..Len(step.args) : step.args[i] = "nvidia-dkms" -> "nvidia_closed"
      [] \E i \in 1..Len(step.args) : step.args[i] = "nvidia-open-dkms" -> "nvidia_open"
      [] \E i \in 1..Len(step.args) : step.args[i] = "cuda" -> "cuda"
      [] OTHER -> "unknown"

\* the kind is wanted for the selection of this call
Wanted(kind) ==
    IF kind = "nv-setup"
    THEN contains(call.selected, "nvidia_closed") \/ contains(call.selected, "nvidia_open")
    ELSE contains(call.selected, kind)

\* C34: for every selection the list build_gpu_driver_commands returns
\* holds, in the order closed driver, open driver, CUDA, NVIDIA
\* configuration, exactly the steps that are wanted: an install step (an AUR
\* step) for each selected option, and the privileged configuration step,
\* last, when the closed or the open driver is selected. The list is empty
\* exactly when no option is selected, and then the dialog's callback hands
\* nothing to task_runner::run.
C34_DriverStepsInFixedOrder ==
    (call.op = "setup_gpu_drivers" /\ call.returned) =>
        LET commands == call.commands
        IN  /\ [ i \in 1..Len(commands) |-> KindOf(commands[i]) ] = SelectSeq(StepKinds, Wanted)
            /\ \A i \in 1..Len(commands) :
                  /\ commands[i].command_type =
                        (IF KindOf(commands[i]) = "nv-setup" THEN "Privileged" ELSE "Aur")
                  /\ KindOf(commands[i]) = "nv-setup" => i = Len(commands)
            /\ commands = <<>> <=> call.selected = <<>>
            /\ call.handled.built \subseteq {commands}
            /\ commands = <<>> => call.handled.run = {}
            /\ call.handled.run \subseteq {commands}

\* CUDA was ticked first, then the closed driver: the list is closed driver,
\* CUDA, configuration, and it is handed to task_runner::run
C34_Witness ==
    /\ call.op = "setup_gpu_drivers" /\ call.returned
    /\ call.selected = << "cuda", "nvidia_closed" >>
    /\ call.commands = << NvidiaClosedStep, CudaStep, NvSetupStep >>
    /\ call.handled.run = { call.commands }

====
